---- MODULE Spec2Model ----
(***************************************************************************)
(* Bill-Manager: the Express server of bill-mgmt-server/server.js and the  *)
(* PostgreSQL table "bills" it reads and writes through pool.query.        *)
(*                                                                         *)
(* inflight holds the queries a handler has passed to pool.query that the  *)
(* database has not executed yet; batch is a history variable.             *)
(*                                                                         *)
(* A JavaScript value that may be undefined or null, and an SQL value that *)
(* may be NULL, is written as a sequence of length 0 or 1: Absent is <<>>, *)
(* and <<v>> is the value v.  undefined and null are one value here: the   *)
(* handlers treat them alike (undefined == null, neither is > 0, and pg    *)
(* sends both as NULL).  Amounts are JSON numbers, here small integers.    *)
(* A date in a request is <<day>> or <<day, time>> (an ISO timestamp); the *)
(* DATE column keeps the day.                                              *)
(***************************************************************************)
EXTENDS Integers, Sequences, FiniteSets, TLC

VARIABLES bills, billid_seq, res, inflight, batch, clients, pending, ui

vars == <<bills, billid_seq, res, inflight, batch, clients, pending, ui>>

(* The queries handed to pool.query and not yet executed, and the record kept
   of them: the table when the pool was last idle and the queries handed over
   since; the clients checked out of the pool, by the pool.connect call at
   startup and by pool.query calls, and the number of pool.query calls that
   wait for a client. *)
pool == <<inflight, batch, clients, pending>>

(* max: 10 *)
PoolMax == 10

ClientsOut(c) == c.startup + c.query

(* A pool that hands out a client to every caller. *)
HasFreeClientNoMax(c) == TRUE

(* The pool has a client to hand out: fewer than max are checked out. *)
HasFreeClient(c) == ClientsOut(c) < PoolMax

(* Bound on the values the sequence bills_billid_seq hands out. *)
MaxSeq == 1

Absent == <<>>

---------------------------------------------------------------------------
(* Route parameter :billId, a string, here a sequence of characters.       *)

DigitChars == <<"0", "1", "2", "3", "4", "5", "6", "7", "8", "9">>

IsDigit(c) == \E d \in 1..10 : DigitChars[d] = c

DigitValue(c) == (CHOOSE d \in 1..10 : DigitChars[d] = c) - 1

RECURSIVE DigitPrefixLen(_)
DigitPrefixLen(s) ==
    IF s = <<>> \/ ~IsDigit(Head(s)) THEN 0 ELSE 1 + DigitPrefixLen(Tail(s))

RECURSIVE DigitsValue(_)
DigitsValue(s) ==
    IF s = <<>> THEN 0
    ELSE 10 * DigitsValue(SubSeq(s, 1, Len(s) - 1)) + DigitValue(s[Len(s)])

(* parseInt(req.params.billId): the leading digits, NaN (Absent) if none. *)
parseInt(s) ==
    LET n == DigitPrefixLen(s)
    IN  IF n = 0 THEN Absent ELSE <<DigitsValue(SubSeq(s, 1, n))>>

(* Number read as parseInt reads: the leading digits count. *)
NumberLeadingDigits(s) == parseInt(s)

(* Number(req.params.billId): the integer a numeral spells; Absent stands for
   what the integer column refuses, NaN and a number with a fraction. *)
Number(s) ==
    IF s # <<>> /\ DigitPrefixLen(s) = Len(s) THEN <<DigitsValue(s)>> ELSE Absent

---------------------------------------------------------------------------
(* JavaScript operators of the handlers on possibly-absent numbers.        *)

(* a == b *)
LooseEq(a, b) ==
    IF a = Absent \/ b = Absent THEN a = Absent /\ b = Absent
    ELSE a[1] = b[1]

(* a > 0 *)
GtZero(a) == a # Absent /\ a[1] > 0

---------------------------------------------------------------------------
(* The table "bills" and the statements of the handlers.                   *)

(* A value bound to a DATE column. *)
ToDate(d) == IF d = Absent THEN Absent ELSE <<d[1]>>

RowsWithId(t, n) == {r \in t : r.billid = n}

(* ORDER BY billid DESC *)
RECURSIVE OrderByBillidDesc(_)
OrderByBillidDesc(t) ==
    IF t = {} THEN <<>>
    ELSE LET first == CHOOSE r \in t : \A q \in t : r.billid >= q.billid
         IN  <<first>> \o OrderByBillidDesc(t \ {first})

RECURSIVE OrderByBillid(_)
OrderByBillid(t) ==
    IF t = {} THEN <<>>
    ELSE LET first == CHOOSE r \in t : \A q \in t : r.billid <= q.billid
         IN  <<first>> \o OrderByBillid(t \ {first})

(* select ... from bills ORDER BY billid ASC *)
SelectAll(t) == OrderByBillid(t)

(* select ... from bills WHERE billid=$1: result.rows *)
SelectOne(t, n) == OrderByBillid(RowsWithId(t, n))

(* The INSERT with billid given as the literal 1 instead of the sequence value. *)
InsertedRowFixedId(id, body) ==
    [billid     |-> 1,
     billfrom   |-> body.billfrom,
     billType   |-> body.billType,
     amountDue  |-> body.amountDue,
     dueDate    |-> ToDate(body.dueDate),
     isPaid     |-> body.isPaid,
     paidInFull |-> body.paidInFull,
     amountPaid |-> body.amountPaid,
     datePaid   |-> ToDate(body.datePaid),
     paidBy     |-> body.paidBy]

(* The row of INSERT INTO bills(...) VALUES($1..$9) with billid from the sequence. *)
InsertedRow(id, body) ==
    [billid     |-> id,
     billfrom   |-> body.billfrom,
     billType   |-> body.billType,
     amountDue  |-> body.amountDue,
     dueDate    |-> ToDate(body.dueDate),
     isPaid     |-> body.isPaid,
     paidInFull |-> body.paidInFull,
     amountPaid |-> body.amountPaid,
     datePaid   |-> ToDate(body.datePaid),
     paidBy     |-> body.paidBy]

(* The payment statement with amountDue=$n added to its SET list. *)
PayUpdateWithAmountDue(t, n, isPaid, paidInFull, body) ==
    {IF r.billid = n
        THEN [r EXCEPT !.isPaid = <<isPaid>>, !.paidInFull = <<paidInFull>>,
                       !.amountDue = body.amountDue,
                       !.amountPaid = body.amountPaid,
                       !.datePaid = ToDate(body.datePaid),
                       !.paidBy = body.paidBy]
        ELSE r : r \in t}

(* The payment statement with "amountPaid"="amountPaid"+$1: payments add up. *)
PayUpdateAddsPayment(t, n, isPaid, paidInFull, body) ==
    {IF r.billid = n
        THEN [r EXCEPT !.isPaid = <<isPaid>>, !.paidInFull = <<paidInFull>>,
                       !.amountPaid = IF r.amountPaid = Absent \/ body.amountPaid = Absent
                                         THEN Absent
                                         ELSE <<r.amountPaid[1] + body.amountPaid[1]>>,
                       !.datePaid = ToDate(body.datePaid),
                       !.paidBy = body.paidBy]
        ELSE r : r \in t}

(* UPDATE bills SET "isPaid"=..,"paidInFull"=..,"amountPaid"=$1,"datePaid"=$2,"paidBy"=$3 WHERE billid=$4 *)
PayUpdate(t, n, isPaid, paidInFull, body) ==
    {IF r.billid = n
        THEN [r EXCEPT !.isPaid = <<isPaid>>, !.paidInFull = <<paidInFull>>,
                       !.amountPaid = body.amountPaid,
                       !.datePaid = ToDate(body.datePaid),
                       !.paidBy = body.paidBy]
        ELSE r : r \in t}

(* The update statement with "amountPaid"="amountPaid"+$5: payments add up. *)
FieldsUpdateAddsPayment(t, n, isPaid, paidInFull, body) ==
    {IF r.billid = n
        THEN [billid     |-> r.billid,
              billfrom   |-> body.billfrom,
              billType   |-> body.billType,
              amountDue  |-> body.amountDue,
              dueDate    |-> ToDate(body.dueDate),
              isPaid     |-> <<isPaid>>,
              paidInFull |-> <<paidInFull>>,
              amountPaid |-> IF r.amountPaid = Absent \/ body.amountPaid = Absent
                                THEN Absent
                                ELSE <<r.amountPaid[1] + body.amountPaid[1]>>,
              datePaid   |-> ToDate(body.datePaid),
              paidBy     |-> body.paidBy]
        ELSE r : r \in t}

(* UPDATE bills SET billfrom=$1,..,"isPaid"=..,"paidInFull"=..,"amountPaid"=$5,.. WHERE billid=$8 *)
FieldsUpdate(t, n, isPaid, paidInFull, body) ==
    {IF r.billid = n
        THEN [billid     |-> r.billid,
              billfrom   |-> body.billfrom,
              billType   |-> body.billType,
              amountDue  |-> body.amountDue,
              dueDate    |-> ToDate(body.dueDate),
              isPaid     |-> <<isPaid>>,
              paidInFull |-> <<paidInFull>>,
              amountPaid |-> body.amountPaid,
              datePaid   |-> ToDate(body.datePaid),
              paidBy     |-> body.paidBy]
        ELSE r : r \in t}

(* DELETE FROM bills WHERE billid=$1 *)
DeleteRows(t, n) == {r \in t : r.billid # n}

(* The sequence with the CYCLE option and a MAXVALUE of 2: values come again. *)
nextvalCycle(seq) == IF seq >= 2 THEN 1 ELSE seq + 1

(* bills_billid_seq after a nextval: INCREMENT 1, no CYCLE *)
nextval(seq) == seq + 1

---------------------------------------------------------------------------
(* Responses.  res.json(err) keeps the default status 200.                 *)

NoResponse == [status |-> 0, kind |-> "none", billNum |-> Absent, rows |-> <<>>]

ErrorResponse == [status |-> 200, kind |-> "error", billNum |-> Absent, rows |-> <<>>]

(* The err of a query whose parameter for billid is NaN or has a fraction:
   invalid input syntax for type integer. *)
InvalidIdResponse ==
    [status |-> 200, kind |-> "error", billNum |-> Absent, rows |-> <<[code |-> "22P02"]>>]

Response(status, kind, billNum, rows) ==
    [status |-> status, kind |-> kind, billNum |-> billNum, rows |-> rows]

---------------------------------------------------------------------------
(* The statement each write handler chooses.                               *)

(* paybill with its two tests in the other order: the full-payment statement is never chosen. *)
PaySqlPartialFirst(body) ==
    IF GtZero(body.amountPaid) THEN "partial"
    ELSE IF LooseEq(body.amountPaid, body.amountDue) /\ GtZero(body.amountPaid) THEN "paidInFull"
    ELSE ""

(* paybill with >= 0 for > 0 in both tests. *)
PaySqlNonNegative(body) ==
    IF LooseEq(body.amountPaid, body.amountDue) /\ body.amountPaid # Absent /\ body.amountPaid[1] >= 0
       THEN "paidInFull"
    ELSE IF body.amountPaid # Absent /\ body.amountPaid[1] >= 0 THEN "partial"
    ELSE ""

(* paybill: "" when sql stays null *)
PaySql(body) ==
    IF LooseEq(body.amountPaid, body.amountDue) /\ GtZero(body.amountPaid) THEN "paidInFull"
    ELSE IF GtZero(body.amountPaid) THEN "partial"
    ELSE ""

(* updatebill taking amountPaid >= amountDue for payment in full. *)
UpdateSqlAtLeastDue(body) ==
    IF LooseEq(body.amountPaid, body.amountDue)
       \/ (body.amountPaid # Absent /\ body.amountDue # Absent /\ body.amountPaid[1] >= body.amountDue[1])
       THEN "paidInFull"
    ELSE IF GtZero(body.amountPaid) THEN "partial"
    ELSE "unpaid"

(* updatebill *)
UpdateSql(body) ==
    IF LooseEq(body.amountPaid, body.amountDue) THEN "paidInFull"
    ELSE IF GtZero(body.amountPaid) THEN "partial"
    ELSE "unpaid"

(* The table after the addbill handler: billid is the primary key. *)
AfterAdd(t, id, body) ==
    IF RowsWithId(t, id) # {} THEN t ELSE t \cup {InsertedRow(id, body)}

(* paybill whose partial-payment statement writes "isPaid"=false. *)
AfterPayPartialUnpaid(t, billNum, body) ==
    IF billNum = Absent \/ PaySql(body) = "" THEN t
    ELSE PayUpdate(t, billNum[1], PaySql(body) = "paidInFull",
                   PaySql(body) = "paidInFull", body)

(* The table after the paybill handler. *)
AfterPay(t, billNum, body) ==
    IF billNum = Absent \/ PaySql(body) = "" THEN t
    ELSE PayUpdate(t, billNum[1], TRUE, PaySql(body) = "paidInFull", body)

(* The table after the updatebill handler. *)
AfterUpdate(t, billNum, body) ==
    IF billNum = Absent THEN t
    ELSE FieldsUpdate(t, billNum[1], UpdateSql(body) # "unpaid",
                      UpdateSql(body) = "paidInFull", body)

---------------------------------------------------------------------------
(* The page state of App.jsx as the page has loaded it. *)

SentinelDate == "9999-01-01"

Rows(list) == [rows |-> list]

(* res.status(200).send("Successfully deleted the bill with the billId: " + billId) *)
Text(billNum) == [text |-> billNum]

IsRows(value) == "rows" \in DOMAIN value

(* useState({billfrom:"", ..., datePaid:"9999-01-01", paidBy:""}): no billid *)
BillDataDefaults ==
    [billid |-> Absent, billfrom |-> <<"">>, billType |-> <<"">>, amountDue |-> <<0>>,
     dueDate |-> <<"">>, isPaid |-> <<FALSE>>, paidInFull |-> <<FALSE>>,
     amountPaid |-> <<0>>, datePaid |-> <<SentinelDate>>, paidBy |-> <<"">>]

AddErrMsg == "The Bill From, Bill Type, Amount Due, and Due Date fields are required at the time of bill entry!"

PayErrMsg == "The Amount Paid, Date Paid, and Paid By fields are required when paying a bill!"

UpdateErrMsg == "The Bill From, Bill Type, Amount Due, and Due Date fields are required when updating a bill entry!"

(* The page after it has loaded: the initial state hooks and the list that the
   getAllBills call of useEffect has fetched from table t. *)
Mounted(t) ==
    [bills |-> Rows(SelectAll(t)), filteredBills |-> Rows(SelectAll(t)),
     isAddModalOpen |-> FALSE, isPayModalOpen |-> FALSE, isUpdateModalOpen |-> FALSE,
     billData |-> BillDataDefaults, errorMsg |-> ""]

---------------------------------------------------------------------------
(* Handlers.                                                               *)

Init ==
    /\ bills = {}
    /\ billid_seq = 1
    /\ res = NoResponse
    /\ inflight = {}
    /\ batch = [base |-> {}, queries |-> {}]
    /\ clients = [startup |-> 0, query |-> 0]
    /\ pending = 0
    /\ ui = Mounted({})

(* app.get("/bills") *)
GetBills ==
    /\ res' = Response(200, "bills", Absent, SelectAll(bills))
    /\ UNCHANGED <<bills, billid_seq, pool, ui>>

(* app.get("/bills/:billId") *)
GetBill(billId) ==
    LET billNum == Number(billId)
    IN  /\ res' = IF billNum = Absent THEN InvalidIdResponse
                  ELSE Response(200, "bill", billNum, SelectOne(bills, billNum[1]))
        /\ UNCHANGED <<bills, billid_seq, pool, ui>>

(* app.get("/bills/amountPaid/:billId") *)
GetAmountPaid(billId) ==
    LET billNum == parseInt(billId)
    IN  /\ res' = IF billNum = Absent THEN InvalidIdResponse
                  ELSE Response(200, "amountPaid", billNum,
                                [i \in DOMAIN SelectOne(bills, billNum[1]) |->
                                    [amountPaid |-> SelectOne(bills, billNum[1])[i].amountPaid]])
        /\ UNCHANGED <<bills, billid_seq, pool, ui>>

(* app.post("/addbill"): the INSERT draws billid from the sequence. *)
PostAddBill(body) ==
    /\ billid_seq' = nextval(billid_seq)
    /\ bills' = AfterAdd(bills, billid_seq, body)
    /\ res' = IF RowsWithId(bills, billid_seq) # {} THEN ErrorResponse
              ELSE Response(201, "created", <<billid_seq>>, <<InsertedRow(billid_seq, body)>>)

(* app.post("/addbill") while the sequence is within MaxSeq *)
AddBill(body) ==
    /\ billid_seq <= MaxSeq
    /\ PostAddBill(body)
    /\ UNCHANGED <<pool, ui>>

(* app.patch("/paybill/:billId") *)
PatchPayBill(billId, body) ==
    LET billNum == parseInt(billId)
    IN  /\ bills' = AfterPay(bills, billNum, body)
        /\ res' = IF PaySql(body) = "" THEN ErrorResponse
                  ELSE IF billNum = Absent THEN InvalidIdResponse
                  ELSE Response(200, "paid", billNum, <<>>)
        /\ UNCHANGED billid_seq

PayBill(billId, body) ==
    /\ PatchPayBill(billId, body)
    /\ UNCHANGED <<pool, ui>>

(* app.patch("/updatebill/:billId") *)
PatchUpdateBill(billId, body) ==
    LET billNum == parseInt(billId)
    IN  /\ bills' = AfterUpdate(bills, billNum, body)
        /\ res' = IF billNum = Absent THEN InvalidIdResponse
                  ELSE Response(200, "updated", billNum, <<>>)
        /\ UNCHANGED billid_seq

UpdateBill(billId, body) ==
    /\ PatchUpdateBill(billId, body)
    /\ UNCHANGED <<pool, ui>>

(* app.delete("/bills/:billId") *)
DeleteOneBill(billId) ==
    LET billNum == parseInt(billId)
    IN  /\ bills' = IF billNum = Absent THEN bills ELSE DeleteRows(bills, billNum[1])
        /\ res' = IF billNum = Absent THEN InvalidIdResponse
                  ELSE Response(200, "deleted", billNum, <<>>)
        /\ UNCHANGED billid_seq

DeleteBill(billId) ==
    /\ DeleteOneBill(billId)
    /\ UNCHANGED <<pool, ui>>

---------------------------------------------------------------------------
(* Requests: the values and bodies the handlers are driven with.           *)

AmountValues == {Absent, <<0>>, <<1>>, <<2>>}

FlagValues == {Absent, <<FALSE>>, <<TRUE>>}

(* isPaid and paidInFull as a pay or update request carries them: left out, or a
   pair that no derivation produces. *)
SuppliedFlags == {<<Absent, Absent>>, <<(<<FALSE>>), (<<TRUE>>)>>}

NumeralIds == {<<DigitChars[n + 1]>> : n \in 1..MaxSeq}

BillIds == NumeralIds \cup {<<"1", "a">>, <<"a">>}

Body(billfrom, billType, amountDue, dueDate, isPaid, paidInFull, amountPaid, datePaid, paidBy) ==
    [billfrom |-> billfrom, billType |-> billType, amountDue |-> amountDue,
     dueDate |-> dueDate, isPaid |-> isPaid, paidInFull |-> paidInFull,
     amountPaid |-> amountPaid, datePaid |-> datePaid, paidBy |-> paidBy]

(* The four fields of the README's POST example, any of them possibly missing or empty. *)
FourFieldBodies ==
    {Body(<<"Doctor">>, <<"Medical">>, due, <<"2025-09-15", "T04:00:00.000Z">>,
          Absent, Absent, Absent, Absent, Absent) : due \in AmountValues}
    \cup {Body(<<"">>, <<"Medical">>, <<1>>, <<"2025-09-15">>,
               Absent, Absent, Absent, Absent, Absent),
          Body(<<"Doctor">>, Absent, <<1>>, <<"2025-09-15">>,
               Absent, Absent, Absent, Absent, Absent),
          Body(<<"Doctor">>, <<"Medical">>, <<1>>, Absent,
               Absent, Absent, Absent, Absent, Absent)}

(* What the add popup posts: billData with its default payment fields. *)
PopupBodies ==
    {Body(<<"Doctor">>, <<"Medical">>, due, <<"2025-09-15">>,
          <<FALSE>>, <<FALSE>>, <<0>>, <<SentinelDate>>, <<"">>) : due \in {<<1>>, <<2>>}}

(* A POST body that carries payment and status fields of its own. *)
StatusBodies ==
    {Body(<<"Doctor">>, <<"Medical">>, <<1>>, <<"2025-09-15">>,
          isPaid, paidInFull, paid, <<"2025-08-12">>, <<"Visa">>) :
        isPaid \in {<<FALSE>>, <<TRUE>>}, paidInFull \in {<<FALSE>>, <<TRUE>>},
        paid \in {<<0>>}}

AddBodies == FourFieldBodies \cup PopupBodies \cup StatusBodies

PayBody(amountDue, isPaid, paidInFull, amountPaid, datePaid, paidBy) ==
    [amountDue |-> amountDue, isPaid |-> isPaid, paidInFull |-> paidInFull,
     amountPaid |-> amountPaid, datePaid |-> datePaid, paidBy |-> paidBy]

PayBodies ==
    {PayBody(due, f[1], f[2], paid, <<"2025-08-12", "T04:00:00.000Z">>, <<"Visa">>) :
        due \in AmountValues, paid \in AmountValues, f \in SuppliedFlags}
    \cup {PayBody(<<1>>, Absent, Absent, <<1>>, Absent, <<"Visa">>),
          PayBody(<<1>>, Absent, Absent, <<1>>, <<"2025-08-12">>, Absent)}

UpdateBodies ==
    {Body(<<"Doctor">>, <<"Medical">>, due, <<"2025-09-15", "T04:00:00.000Z">>,
          f[1], f[2], paid, <<"2025-08-12", "T04:00:00.000Z">>, <<"Visa">>) :
        due \in AmountValues, paid \in AmountValues, f \in SuppliedFlags}

Next ==
    \/ GetBills
    \/ \E billId \in BillIds : GetBill(billId)
    \/ \E billId \in BillIds : GetAmountPaid(billId)
    \/ \E body \in AddBodies : AddBill(body)
    \/ \E billId \in NumeralIds, body \in PayBodies : PayBill(billId, body)
    \/ \E billId \in NumeralIds, body \in UpdateBodies : UpdateBill(billId, body)
    \/ \E billId \in BillIds : DeleteBill(billId)

Spec == Init /\ [][Next]_vars

---------------------------------------------------------------------------
(* Several bills: the same handlers driven with fewer bodies, ids of every *)
(* shape on every route, and a table of up to MaxRows bills.               *)

(* Bound on the values the sequence hands out under SpecRows. *)
MaxRows == 2

RowIds == {<<DigitChars[n + 1]>> : n \in 1..MaxRows}
          \cup {<<"1", "a">>, <<"1", ".", "5">>, <<"a">>}

RowAddBodies == {body \in PopupBodies : body.amountDue = <<2>>}

RowPayBodies ==
    {body \in PayBodies :
        /\ body.amountDue = <<2>> /\ body.isPaid = Absent
        /\ body.amountPaid \in {Absent, <<0>>, <<1>>, <<2>>}}
    \cup {PayBody(due, Absent, Absent, <<-1>>, <<"2025-08-12">>, <<"Visa">>) :
             due \in {<<-1>>, <<2>>}}

RowUpdateBodies ==
    {body \in UpdateBodies :
        /\ body.amountDue = <<2>> /\ body.isPaid = Absent
        /\ body.amountPaid \in {Absent, <<0>>, <<2>>}}

(* app.post("/addbill") while the sequence is within MaxRows *)
AddRow(body) ==
    /\ billid_seq <= MaxRows
    /\ PostAddBill(body)
    /\ UNCHANGED <<pool, ui>>

NextRows ==
    \/ GetBills
    \/ \E billId \in RowIds : GetBill(billId)
    \/ \E billId \in RowIds : GetAmountPaid(billId)
    \/ \E body \in RowAddBodies : AddRow(body)
    \/ \E billId \in RowIds, body \in RowPayBodies : PayBill(billId, body)
    \/ \E billId \in RowIds, body \in RowUpdateBodies : UpdateBill(billId, body)
    \/ \E billId \in RowIds : DeleteBill(billId)

SpecRows == Init /\ [][NextRows]_vars

---------------------------------------------------------------------------
(* Concurrent writes.  A write handler runs to its pool.query call in one  *)
(* piece: it reads the request, chooses its statement and hands it to the  *)
(* pool.  The pool runs the queries it holds on its connections, so the    *)
(* database executes them in any order, each UPDATE as one statement; the  *)
(* callback then sends the response.                                       *)

(* Bound on the queries the pool holds at a time, and on those of a batch. *)
MaxInFlight == 2

ConcAddBodies == RowAddBodies

ConcPayBodies ==
    {body \in PayBodies :
        /\ body.amountDue = <<2>> /\ body.isPaid = Absent
        /\ body.amountPaid \in {<<1>>, <<2>>}}

ConcUpdateBodies ==
    {body \in UpdateBodies :
        /\ body.isPaid = Absent
        /\ \/ body.amountDue = <<1>> /\ body.amountPaid = <<1>>
           \/ body.amountDue = <<2>> /\ body.amountPaid = Absent}

(* pool.query(sql, [amountPaid, datePaid, paidBy, billNum]) of paybill: the
   flags are literals of the chosen statement. *)
PayQuery(billNum, body) ==
    [route |-> "paybill", billNum |-> billNum, isPaid |-> TRUE,
     paidInFull |-> PaySql(body) = "paidInFull", body |-> body]

(* pool.query(sql, [billfrom, .., billNum]) of updatebill *)
UpdateQuery(billNum, body) ==
    [route |-> "updatebill", billNum |-> billNum, isPaid |-> UpdateSql(body) # "unpaid",
     paidInFull |-> UpdateSql(body) = "paidInFull", body |-> body]

(* pool.query(sql, [billNum]) of the delete route *)
DeleteQuery(billNum) == [route |-> "delete", billNum |-> billNum]

(* Every UPDATE and DELETE without its WHERE clause. *)
RunQueryEveryRow(t, q) ==
    IF q.billNum = Absent THEN t
    ELSE IF q.route = "delete" THEN {}
    ELSE IF q.route = "paybill"
         THEN {[r EXCEPT !.isPaid = <<q.isPaid>>, !.paidInFull = <<q.paidInFull>>,
                         !.amountPaid = q.body.amountPaid,
                         !.datePaid = ToDate(q.body.datePaid),
                         !.paidBy = q.body.paidBy] : r \in t}
         ELSE UNION {FieldsUpdate({r}, r.billid, q.isPaid, q.paidInFull, q.body) : r \in t}

(* The payment statement split in two, of which only the one that sets
   amountPaid, datePaid and paidBy is run: the flags are left as stored. *)
RunQueryWithoutFlags(t, q) ==
    IF q.billNum = Absent THEN t
    ELSE IF q.route = "delete" THEN DeleteRows(t, q.billNum[1])
    ELSE IF q.route = "paybill"
         THEN {IF r.billid = q.billNum[1]
                  THEN [r EXCEPT !.amountPaid = q.body.amountPaid,
                                 !.datePaid = ToDate(q.body.datePaid),
                                 !.paidBy = q.body.paidBy]
                  ELSE r : r \in t}
         ELSE FieldsUpdate(t, q.billNum[1], q.isPaid, q.paidInFull, q.body)

(* The table after the database has executed query q. *)
RunQuery(t, q) ==
    IF q.billNum = Absent THEN t
    ELSE IF q.route = "delete" THEN DeleteRows(t, q.billNum[1])
    ELSE IF q.route = "paybill"
         THEN PayUpdate(t, q.billNum[1], q.isPaid, q.paidInFull, q.body)
         ELSE FieldsUpdate(t, q.billNum[1], q.isPaid, q.paidInFull, q.body)

(* pool.query(q): the pool takes the query. *)
Hand(q) ==
    /\ Cardinality(inflight) < MaxInFlight
    /\ inflight # {} => (q \notin batch.queries /\ Cardinality(batch.queries) < MaxInFlight)
    /\ HasFreeClient(clients)
    /\ clients' = [clients EXCEPT !.query = @ + 1]
    /\ UNCHANGED pending
    /\ inflight' = inflight \cup {q}
    /\ batch' = IF inflight = {} THEN [base |-> bills, queries |-> {q}]
                ELSE [batch EXCEPT !.queries = @ \cup {q}]

(* app.patch("/paybill/:billId") up to its pool.query call *)
SendPay(billId, body) ==
    /\ IF PaySql(body) = ""
          THEN res' = ErrorResponse /\ UNCHANGED pool
          ELSE Hand(PayQuery(parseInt(billId), body)) /\ UNCHANGED res
    /\ UNCHANGED <<bills, billid_seq, ui>>

(* app.patch("/updatebill/:billId") up to its pool.query call *)
SendUpdate(billId, body) ==
    /\ Hand(UpdateQuery(parseInt(billId), body))
    /\ UNCHANGED <<bills, billid_seq, res, ui>>

(* app.delete("/bills/:billId") up to its pool.query call *)
SendDelete(billId) ==
    /\ Hand(DeleteQuery(parseInt(billId)))
    /\ UNCHANGED <<bills, billid_seq, res, ui>>

(* The database executes query q and the callback of pool.query responds. *)
Complete(q) ==
    /\ q \in inflight
    /\ bills' = RunQuery(bills, q)
    /\ res' = IF q.billNum = Absent THEN InvalidIdResponse
              ELSE Response(200, IF q.route = "paybill" THEN "paid"
                                 ELSE IF q.route = "delete" THEN "deleted" ELSE "updated",
                            q.billNum, <<>>)
    /\ inflight' = inflight \ {q}
    /\ clients' = [clients EXCEPT !.query = @ - 1]
    /\ UNCHANGED <<billid_seq, batch, pending, ui>>

(* app.post("/addbill") while the pool holds no query *)
AddWhenIdle(body) ==
    /\ inflight = {}
    /\ billid_seq <= MaxSeq
    /\ PostAddBill(body)
    /\ inflight' = inflight
    /\ batch' = [base |-> bills', queries |-> {}]
    /\ UNCHANGED <<clients, pending, ui>>

(* The queries the write handlers can hand to the pool. *)
ConcQueries ==
    {PayQuery(parseInt(billId), body) : billId \in NumeralIds, body \in ConcPayBodies}
    \cup {UpdateQuery(parseInt(billId), body) : billId \in NumeralIds, body \in ConcUpdateBodies}

NextConc ==
    \/ \E body \in ConcAddBodies : AddWhenIdle(body)
    \/ \E billId \in NumeralIds, body \in ConcPayBodies : SendPay(billId, body)
    \/ \E billId \in NumeralIds, body \in ConcUpdateBodies : SendUpdate(billId, body)
    \/ \E q \in ConcQueries : Complete(q)

SpecConc == Init /\ [][NextConc]_vars

---------------------------------------------------------------------------
(* Concurrent requests on several bills: pay, update and delete queries in *)
(* flight on a table of up to MaxRows bills.                               *)

FrameIds == {<<DigitChars[n + 1]>> : n \in 1..MaxRows}

FramePayBodies == {body \in ConcPayBodies : body.amountPaid = <<2>>}

FrameUpdateBodies == {body \in ConcUpdateBodies : body.amountDue = <<1>>}

FrameQueries ==
    {PayQuery(parseInt(billId), body) : billId \in FrameIds, body \in FramePayBodies}
    \cup {UpdateQuery(parseInt(billId), body) : billId \in FrameIds, body \in FrameUpdateBodies}
    \cup {DeleteQuery(parseInt(billId)) : billId \in FrameIds}

(* app.post("/addbill") while the pool holds no query and the sequence is within MaxRows *)
AddRowWhenIdle(body) ==
    /\ inflight = {}
    /\ billid_seq <= MaxRows
    /\ PostAddBill(body)
    /\ inflight' = inflight
    /\ batch' = [base |-> bills', queries |-> {}]
    /\ UNCHANGED <<clients, pending, ui>>

NextFrame ==
    \/ \E body \in ConcAddBodies : AddRowWhenIdle(body)
    \/ \E billId \in FrameIds, body \in FramePayBodies : SendPay(billId, body)
    \/ \E billId \in FrameIds, body \in FrameUpdateBodies : SendUpdate(billId, body)
    \/ \E billId \in FrameIds : SendDelete(billId)
    \/ \E q \in FrameQueries : Complete(q)

SpecFrame == Init /\ [][NextFrame]_vars

---------------------------------------------------------------------------
(* The pool's clients.  pool.connect at startup checks a client out and    *)
(* its callback keeps it.  pool.query checks a client out, runs the query  *)
(* on it and releases it; when max clients are checked out the call waits  *)
(* until one is released.  The requests here are GET /bills.               *)

(* Bound on the pool.query calls that wait for a client. *)
MaxPending == 2

(* pool.connect((err, connection) => ...): the callback gets its client. *)
Connected ==
    /\ clients.startup = 0
    /\ HasFreeClient(clients)
    /\ clients' = [clients EXCEPT !.startup = 1]
    /\ UNCHANGED <<bills, billid_seq, res, inflight, batch, pending, ui>>

(* app.get("/bills") up to its pool.query call *)
SendGetBills ==
    /\ IF HasFreeClient(clients)
          THEN clients' = [clients EXCEPT !.query = @ + 1] /\ UNCHANGED pending
          ELSE pending < MaxPending /\ pending' = pending + 1 /\ UNCHANGED clients
    /\ UNCHANGED <<bills, billid_seq, res, inflight, batch, ui>>

(* The query of a GET /bills ends: its callback responds, and its client is
   released, to the longest-waiting pool.query call if there is one. *)
CompleteGetBills ==
    /\ clients.query > 0
    /\ res' = Response(200, "bills", Absent, SelectAll(bills))
    /\ IF pending > 0
          THEN pending' = pending - 1 /\ UNCHANGED clients
          ELSE clients' = [clients EXCEPT !.query = @ - 1] /\ UNCHANGED pending
    /\ UNCHANGED <<bills, billid_seq, inflight, batch, ui>>

(* app.post("/addbill") when the pool has a client for its query *)
AddWhenFree(body) ==
    /\ HasFreeClient(clients)
    /\ AddBill(body)

NextPool ==
    \/ Connected
    \/ SendGetBills
    \/ CompleteGetBills
    \/ \E body \in PopupBodies : AddWhenFree(body)

SpecPool == Init /\ [][NextPool]_vars

---------------------------------------------------------------------------
(* The React client of App.jsx: one page, its state hooks and its handlers. *)
(* ui holds the state hooks.  bills and filteredBills hold what the last    *)
(* response gave them: Rows(list) for an array of bill records, Text(n) for *)
(* the text the delete route answers with.  An axios call and its response  *)
(* are one step with the handler that awaits it, and so is the list request *)
(* of getAllBills.  What is typed into a number input is the number.  The  *)
(* search box stays empty, so that filteredBills is the whole list.         *)

(* !value, for a text or date, a number, and a boolean *)
FalsyText(value) == value = Absent \/ value = <<"">>

FalsyNumber(value) == value = Absent \/ value = <<0>>

FalsyFlag(value) == value = Absent \/ value = <<FALSE>>

(* `${billData.billid}` in the request path *)
TemplateId(billid) ==
    IF billid = Absent THEN <<"u", "n", "d", "e", "f", "i", "n", "e", "d">>
    ELSE <<DigitChars[billid[1] + 1]>>

(* setBillData(bill): a record of the list as the form data *)
FormOf(bill) == [bill EXCEPT !.billid = <<bill.billid>>]

(* The page renders: filteredBills.map is a function. *)
Rendered == IsRows(ui.filteredBills)

(* getAllBills() reading table t, together with the other setters of a close handler *)
Closed(state, t) ==
    [state EXCEPT !.bills = Rows(SelectAll(t)), !.filteredBills = Rows(SelectAll(t)),
                  !.billData = BillDataDefaults, !.errorMsg = ""]

BillFields == {"billfrom", "billType", "amountDue", "dueDate"}

PaymentFields == {"amountPaid", "datePaid", "paidBy"}

(* The inputs without readOnly of the popups that are open. *)
Editable(state) ==
    (IF state.isAddModalOpen THEN BillFields ELSE {})
    \cup (IF state.isPayModalOpen THEN PaymentFields ELSE {})
    \cup (IF state.isUpdateModalOpen THEN BillFields \cup PaymentFields ELSE {})

(* What the user types or selects, per input; the date paid is left as it is. *)
Typed ==
    [billfrom |-> {<<"">>, <<"Doctor">>}, billType |-> {<<"Medical">>},
     amountDue |-> {<<2>>}, dueDate |-> {<<"2025-09-15">>},
     amountPaid |-> {<<2>>}, datePaid |-> {}, paidBy |-> {<<"Visa">>}]

(* openPopup: the "Add new bill" button *)
OpenPopup ==
    /\ Rendered
    /\ ~ui.isAddModalOpen
    /\ ui' = [ui EXCEPT !.isAddModalOpen = TRUE]
    /\ UNCHANGED <<bills, billid_seq, res, pool>>

(* handleChange: setBillData({...billData, [e.target.name]: e.target.value}) *)
HandleChange(name, value) ==
    /\ Rendered
    /\ name \in Editable(ui)
    /\ value \in Typed[name]
    /\ ui' = [ui EXCEPT !.billData[name] = value]
    /\ UNCHANGED <<bills, billid_seq, res, pool>>

(* The check of the bill fields without the test of dueDate. *)
BillFieldsMissingButDueDate(data) ==
    \/ FalsyText(data.billfrom)
    \/ FalsyText(data.billType)
    \/ FalsyNumber(data.amountDue)

(* The check of handleSubmit and handleUpdateSubmit *)
BillFieldsMissing(data) ==
    \/ FalsyText(data.billfrom)
    \/ FalsyText(data.billType)
    \/ FalsyNumber(data.amountDue)
    \/ FalsyText(data.dueDate)

(* The check of handlePaySubmit *)
PaymentFieldsMissing(data) ==
    \/ FalsyNumber(data.amountPaid)
    \/ FalsyText(data.datePaid)
    \/ FalsyText(data.paidBy)

(* handleSubmit: the "Add Bill" button, with handleClose after the POST *)
AddSubmit ==
    /\ Rendered
    /\ ui.isAddModalOpen
    /\ IF BillFieldsMissing(ui.billData)
          THEN /\ ui' = [ui EXCEPT !.errorMsg = AddErrMsg]
               /\ UNCHANGED <<bills, billid_seq, res>>
          ELSE /\ IF FalsyNumber(ui.billData.billid)
                     THEN PostAddBill(ui.billData)
                     ELSE UNCHANGED <<bills, billid_seq, res>>
               /\ ui' = Closed([ui EXCEPT !.isAddModalOpen = FALSE], bills')
    /\ UNCHANGED pool

(* handleSubmit gets as far as axios.post *)
AddPosts == ~BillFieldsMissing(ui.billData) /\ FalsyNumber(ui.billData.billid)

(* handleSubmit, posting while the sequence is within MaxSeq *)
HandleSubmit ==
    /\ AddPosts => billid_seq <= MaxSeq
    /\ AddSubmit

(* handleClose: the close button of the add popup *)
HandleClose ==
    /\ Rendered
    /\ ui.isAddModalOpen
    /\ ui' = Closed([ui EXCEPT !.isAddModalOpen = FALSE], bills)
    /\ UNCHANGED <<bills, billid_seq, res, pool>>

(* handleUpdate(bill): the "Pay" button of row i, disabled={bill.paidInFull} *)
HandleUpdate(i) ==
    /\ Rendered
    /\ i <= Len(ui.filteredBills.rows)
    /\ FalsyFlag(ui.filteredBills.rows[i].paidInFull)
    /\ ui' = [ui EXCEPT !.billData = FormOf(ui.filteredBills.rows[i]),
                        !.isPayModalOpen = TRUE]
    /\ UNCHANGED <<bills, billid_seq, res, pool>>

(* handlePaySubmit: the "Pay Bill" button, with handlePayClose after the PATCH *)
HandlePaySubmit ==
    /\ Rendered
    /\ ui.isPayModalOpen
    /\ IF PaymentFieldsMissing(ui.billData)
          THEN /\ ui' = [ui EXCEPT !.errorMsg = PayErrMsg]
               /\ UNCHANGED <<bills, billid_seq, res>>
          ELSE /\ PatchPayBill(TemplateId(ui.billData.billid), ui.billData)
               /\ ui' = Closed([ui EXCEPT !.isPayModalOpen = FALSE], bills')
    /\ UNCHANGED pool

(* handlePayClose: the close button of the pay popup *)
HandlePayClose ==
    /\ Rendered
    /\ ui.isPayModalOpen
    /\ ui' = Closed([ui EXCEPT !.isPayModalOpen = FALSE], bills)
    /\ UNCHANGED <<bills, billid_seq, res, pool>>

(* handleFieldUpdates(bill): the "Update" button of row i *)
HandleFieldUpdates(i) ==
    /\ Rendered
    /\ i <= Len(ui.filteredBills.rows)
    /\ ui' = [ui EXCEPT !.billData = FormOf(ui.filteredBills.rows[i]),
                        !.isUpdateModalOpen = TRUE]
    /\ UNCHANGED <<bills, billid_seq, res, pool>>

(* handleUpdateSubmit: the "Update Bill" button, with handleUpdateClose after the PATCH *)
HandleUpdateSubmit ==
    /\ Rendered
    /\ ui.isUpdateModalOpen
    /\ IF BillFieldsMissing(ui.billData)
          THEN /\ ui' = [ui EXCEPT !.errorMsg = UpdateErrMsg]
               /\ UNCHANGED <<bills, billid_seq, res>>
          ELSE /\ PatchUpdateBill(TemplateId(ui.billData.billid), ui.billData)
               /\ ui' = Closed([ui EXCEPT !.isUpdateModalOpen = FALSE], bills')
    /\ UNCHANGED pool

(* handleUpdateClose: the close button of the update popup *)
HandleUpdateClose ==
    /\ Rendered
    /\ ui.isUpdateModalOpen
    /\ ui' = Closed([ui EXCEPT !.isUpdateModalOpen = FALSE], bills)
    /\ UNCHANGED <<bills, billid_seq, res, pool>>

(* handleDelete(bill.billid): the "Delete" button of row i and the answer to
   window.confirm.  A confirmed delete leaves the page with the setters called
   and window.location.reload() requested; a declined one only reloads. *)
HandleDelete(i, isConfirmed) ==
    /\ Rendered
    /\ i <= Len(ui.filteredBills.rows)
    /\ IF isConfirmed
          THEN /\ DeleteOneBill(TemplateId(<<ui.filteredBills.rows[i].billid>>))
               /\ ui' = [ui EXCEPT !.bills = Text(ui.filteredBills.rows[i].billid),
                                   !.filteredBills = Text(ui.filteredBills.rows[i].billid)]
          ELSE /\ ui' = Mounted(bills)
               /\ UNCHANGED <<bills, billid_seq, res>>
    /\ UNCHANGED pool

(* The page loads again after window.location.reload(). *)
Reload ==
    /\ ~Rendered
    /\ ui' = Mounted(bills)
    /\ UNCHANGED <<bills, billid_seq, res, pool>>

NextUi ==
    \/ OpenPopup
    \/ \E name \in BillFields \cup PaymentFields : \E value \in Typed[name] : HandleChange(name, value)
    \/ HandleSubmit
    \/ HandleClose
    \/ \E i \in 1..MaxSeq : HandleUpdate(i)
    \/ HandlePaySubmit
    \/ HandlePayClose
    \/ \E i \in 1..MaxSeq : HandleFieldUpdates(i)
    \/ HandleUpdateSubmit
    \/ HandleUpdateClose
    \/ \E i \in 1..MaxSeq, isConfirmed \in BOOLEAN : HandleDelete(i, isConfirmed)
    \/ Reload

SpecUi == Init /\ [][NextUi]_vars

(* handleSubmit, posting while the sequence is within MaxRows *)
HandleSubmitRows ==
    /\ AddPosts => billid_seq <= MaxRows
    /\ AddSubmit

(* The page with up to MaxRows bills in its list. *)
NextUiRows ==
    \/ OpenPopup
    \/ \E name \in BillFields \cup PaymentFields : \E value \in Typed[name] : HandleChange(name, value)
    \/ HandleSubmitRows
    \/ HandleClose
    \/ \E i \in 1..MaxRows : HandleUpdate(i)
    \/ HandlePaySubmit
    \/ HandlePayClose
    \/ \E i \in 1..MaxRows : HandleFieldUpdates(i)
    \/ HandleUpdateSubmit
    \/ HandleUpdateClose
    \/ \E i \in 1..MaxRows, isConfirmed \in BOOLEAN : HandleDelete(i, isConfirmed)
    \/ Reload

SpecUiRows == Init /\ [][NextUiRows]_vars

---------------------------------------------------------------------------
(* Properties.                                                             *)

IsTrue(flag) == flag = <<TRUE>>

IsFalse(flag) == flag = <<FALSE>>

(* The rows of table t with billid n, n as parseInt returns it. *)
Addressed(t, billNum) == IF billNum = Absent THEN {} ELSE RowsWithId(t, billNum[1])

(* amountPaid = amountDue > 0, as numbers *)
PaysExactly(body) ==
    /\ body.amountPaid # Absent /\ body.amountDue # Absent
    /\ body.amountPaid[1] = body.amountDue[1]
    /\ body.amountPaid[1] > 0

(* amountPaid > 0 and amountPaid != amountDue *)
PaysOtherAmount(body) ==
    /\ body.amountPaid # Absent /\ body.amountPaid[1] > 0
    /\ (body.amountDue = Absent \/ body.amountDue[1] # body.amountPaid[1])

(* amountPaid <= 0 or absent *)
PaysNothing(body) == body.amountPaid = Absent \/ body.amountPaid[1] <= 0

(* A response that reports a failure to the caller. *)
IsFailure(r) == r.kind = "error"

(* C1: every stored bill satisfies paidInFull => isPaid. *)
C1_PaidInFullImpliesIsPaid ==
    \A r \in bills : IsTrue(r.paidInFull) => IsTrue(r.isPaid)

(* C2: isPaid and paidInFull supplied in an add, pay or update request never
   influence the stored record: the request leaves the table that the same
   request with any other supplied flags would leave. *)
C2_SuppliedFlagsIgnored ==
    [][\A isPaid \in FlagValues, paidInFull \in FlagValues :
          /\ \A body \in AddBodies :
                AddBill(body) =>
                    bills' = AfterAdd(bills, billid_seq,
                                      [body EXCEPT !.isPaid = isPaid, !.paidInFull = paidInFull])
          /\ \A billId \in NumeralIds, body \in PayBodies :
                PayBill(billId, body) =>
                    bills' = AfterPay(bills, parseInt(billId),
                                      [body EXCEPT !.isPaid = isPaid, !.paidInFull = paidInFull])
          /\ \A billId \in NumeralIds, body \in UpdateBodies :
                UpdateBill(billId, body) =>
                    bills' = AfterUpdate(bills, parseInt(billId),
                                         [body EXCEPT !.isPaid = isPaid, !.paidInFull = paidInFull])]_vars

(* C3: every stored bill has paidInFull = true iff its stored amountPaid equals
   its stored amountDue and its stored amountPaid > 0. *)
C3_PaidInFullIffAmountsMatch ==
    \A r \in bills :
        IsTrue(r.paidInFull) <=>
            (r.amountPaid # Absent /\ r.amountDue # Absent
             /\ r.amountPaid[1] = r.amountDue[1] /\ r.amountPaid[1] > 0)

(* C4: every stored bill has isPaid = true iff its stored amountPaid > 0. *)
C4_IsPaidIffAmountPaid ==
    \A r \in bills : IsTrue(r.isPaid) <=> GtZero(r.amountPaid)

(* C5: a payBill or updateBill request with amountPaid = amountDue > 0 on an
   existing bill leaves that bill with isPaid = true and paidInFull = true. *)
C5_FullPaymentSetsBothFlags ==
    \A billId \in NumeralIds :
        /\ \A body \in PayBodies :
              PaysExactly(body) =>
                  \A r \in Addressed(AfterPay(bills, parseInt(billId), body), parseInt(billId)) :
                      IsTrue(r.isPaid) /\ IsTrue(r.paidInFull)
        /\ \A body \in UpdateBodies :
              PaysExactly(body) =>
                  \A r \in Addressed(AfterUpdate(bills, parseInt(billId), body), parseInt(billId)) :
                      IsTrue(r.isPaid) /\ IsTrue(r.paidInFull)

(* C5 witness: a payBill has just been answered for a stored bill whose amountPaid
   equals its amountDue and is positive, and both flags are true. *)
C5_Witness ==
    /\ res.kind = "paid"
    /\ \E r \in Addressed(bills, res.billNum) :
          /\ GtZero(r.amountPaid) /\ r.amountPaid = r.amountDue
          /\ IsTrue(r.isPaid) /\ IsTrue(r.paidInFull)

(* C6: a payBill or updateBill request with amountPaid > 0 and amountPaid !=
   amountDue on an existing bill leaves that bill with isPaid = true and
   paidInFull = false. *)
C6_OtherPaymentSetsIsPaidOnly ==
    \A billId \in NumeralIds :
        /\ \A body \in PayBodies :
              PaysOtherAmount(body) =>
                  \A r \in Addressed(AfterPay(bills, parseInt(billId), body), parseInt(billId)) :
                      IsTrue(r.isPaid) /\ IsFalse(r.paidInFull)
        /\ \A body \in UpdateBodies :
              PaysOtherAmount(body) =>
                  \A r \in Addressed(AfterUpdate(bills, parseInt(billId), body), parseInt(billId)) :
                      IsTrue(r.isPaid) /\ IsFalse(r.paidInFull)

(* C6 witness: an updateBill has just been answered for a stored bill that is
   overpaid (amountPaid > amountDue > 0); isPaid is true and paidInFull false. *)
C6_Witness ==
    /\ res.kind = "updated"
    /\ \E r \in Addressed(bills, res.billNum) :
          /\ GtZero(r.amountDue) /\ r.amountPaid # Absent /\ r.amountPaid[1] > r.amountDue[1]
          /\ IsTrue(r.isPaid) /\ IsFalse(r.paidInFull)

(* C7: an updateBill request whose amountPaid is <= 0 or absent, with any
   amountDue, leaves the addressed bill with isPaid = false and paidInFull = false. *)
C7_UpdateWithoutPaymentClearsFlags ==
    [][\A billId \in NumeralIds, body \in UpdateBodies :
          (PaysNothing(body) /\ UpdateBill(billId, body))
              => \A r \in Addressed(bills', parseInt(billId)) :
                    IsFalse(r.isPaid) /\ IsFalse(r.paidInFull)]_vars

(* The four required fields of a row or a body, each present, non-empty, non-zero. *)
HasRequiredFields(b) ==
    /\ b.billfrom # Absent /\ b.billfrom # <<"">>
    /\ b.billType # Absent /\ b.billType # <<"">>
    /\ b.amountDue # Absent /\ b.amountDue # <<0>>
    /\ b.dueDate # Absent

(* C8: getBill on the id that an addBill with the four fields has just assigned
   returns one record with amountPaid 0, isPaid false, paidInFull false, datePaid
   the sentinel date and paidBy empty. *)
C8_AddedBillReadsBackDefaults ==
    [][(/\ res.kind = "created"
        /\ HasRequiredFields(res.rows[1])
        /\ res'.kind = "bill"
        /\ res'.billNum = res.billNum)
       => (/\ Len(res'.rows) = 1
           /\ res'.rows[1].amountPaid = <<0>>
           /\ IsFalse(res'.rows[1].isPaid)
           /\ IsFalse(res'.rows[1].paidInFull)
           /\ res'.rows[1].datePaid = <<SentinelDate>>
           /\ res'.rows[1].paidBy = <<"">>)]_vars

(* C9: an addBill request in which from, type, amountDue or dueDate is missing,
   empty or zero is answered with a failure and leaves the table unchanged. *)
C9_AddWithoutRequiredFieldRejected ==
    [][\A body \in AddBodies :
          (~HasRequiredFields(body) /\ AddBill(body))
              => (IsFailure(res') /\ bills' = bills)]_vars

(* amountPaid, datePaid and paidBy all present in a pay request *)
HasPaymentFields(body) ==
    body.amountPaid # Absent /\ body.datePaid # Absent /\ body.paidBy # Absent

(* C10: a payBill request on a stored bill in which amountPaid, datePaid or
   paidBy is missing is answered with a failure and leaves the bill unchanged. *)
C10_PayWithoutPaymentFieldRejected ==
    [][\A billId \in NumeralIds, body \in PayBodies :
          (/\ ~HasPaymentFields(body)
           /\ Addressed(bills, parseInt(billId)) # {}
           /\ PayBill(billId, body))
              => (IsFailure(res') /\ bills' = bills)]_vars

(* from, type, amountDue and dueDate all present in an update request *)
HasUpdateFields(body) ==
    /\ body.billfrom # Absent /\ body.billType # Absent
    /\ body.amountDue # Absent /\ body.dueDate # Absent

(* C11: an updateBill request on a stored bill in which from, type, amountDue or
   dueDate is missing is answered with a failure and leaves the bill unchanged. *)
C11_UpdateWithoutRequiredFieldRejected ==
    [][\A billId \in NumeralIds, body \in UpdateBodies :
          (/\ ~HasUpdateFields(body)
           /\ Addressed(bills, parseInt(billId)) # {}
           /\ UpdateBill(billId, body))
              => (IsFailure(res') /\ bills' = bills)]_vars

(* The success confirmations of the three routes that address one bill. *)
IsConfirmation(r) == r.kind \in {"paid", "updated", "deleted"}

(* C12: payBill, updateBill and deleteBill on an id that matches no stored bill
   are answered with something other than the success confirmation, and leave
   the table unchanged. *)
C12_UnknownIdNotConfirmed ==
    [][\A billId \in NumeralIds :
          Addressed(bills, parseInt(billId)) = {} =>
              /\ \A body \in PayBodies :
                    PayBill(billId, body) => (~IsConfirmation(res') /\ bills' = bills)
              /\ \A body \in UpdateBodies :
                    UpdateBill(billId, body) => (~IsConfirmation(res') /\ bills' = bills)
              /\ DeleteBill(billId) => (~IsConfirmation(res') /\ bills' = bills)]_vars

(* C16: updateBill is idempotent: in every reachable table, applying an update
   request a second time leaves the table the first application produced. *)
C16_UpdateIdempotent ==
    \A billId \in NumeralIds, body \in UpdateBodies :
        LET once == AfterUpdate(bills, parseInt(billId), body)
        IN  AfterUpdate(once, parseInt(billId), body) = once

(* An update has just been applied to a stored bill, and the table is the one
   a second application of some such request leaves in place. *)
C16_Witness ==
    /\ res.kind = "updated"
    /\ \E r \in Addressed(bills, res.billNum) : GtZero(r.amountPaid)
    /\ \E body \in UpdateBodies :
          /\ GtZero(body.amountPaid)
          /\ AfterUpdate(bills, res.billNum, body) = bills

(* C17: payBill leaves from, type, amountDue and dueDate of every bill as they
   were, whatever amountDue the request carries. *)
C17_PayKeepsBillFields ==
    \A billId \in NumeralIds, body \in PayBodies :
        LET after == AfterPay(bills, parseInt(billId), body)
        IN  /\ Cardinality(after) = Cardinality(bills)
            /\ \A r \in bills : \E q \in after :
                  /\ q.billid = r.billid
                  /\ q.billfrom = r.billfrom
                  /\ q.billType = r.billType
                  /\ q.amountDue = r.amountDue
                  /\ q.dueDate = r.dueDate

(* A payment was recorded as paid in full from the request's amountDue, while
   the stored amountDue is a different amount. *)
C17_Witness ==
    /\ res.kind = "paid"
    /\ \E r \in Addressed(bills, res.billNum) :
          /\ IsTrue(r.paidInFull)
          /\ GtZero(r.amountPaid)
          /\ r.amountDue # r.amountPaid

(* Bill n was added and a delete of n has been confirmed. *)
DeleteConfirmed(n) ==
    /\ billid_seq > n
    /\ res.kind = "deleted"
    /\ res.billNum = <<n>>

(* Bill n is not in the table, and the response at hand, if it is the answer to
   getBill(n) or to listBills, holds no record of it. *)
Gone(n) ==
    /\ RowsWithId(bills, n) = {}
    /\ (res.kind = "bill" /\ res.billNum = <<n>>) => res.rows = <<>>
    /\ res.kind = "bills" => \A i \in DOMAIN res.rows : res.rows[i].billid # n

(* C13: once the delete of a bill has been confirmed, getBill on its id returns
   no record and listBills never shows the bill again, whatever requests follow. *)
C13_DeletedBillStaysGone ==
    \A n \in 1..MaxRows : [](DeleteConfirmed(n) => []Gone(n))

(* Bill 1 was deleted, a bill was added after it was issued, and getBill(1)
   has just returned no record. *)
C13_Witness ==
    /\ billid_seq > 2
    /\ RowsWithId(bills, 1) = {}
    /\ bills # {}
    /\ res.kind = "bill" /\ res.billNum = <<1>> /\ res.rows = <<>>

(* The ids of the bills in table t. *)
Ids(t) == {r.billid : r \in t}

UniqueIds == \A r \in bills, q \in bills : r.billid = q.billid => r = q

(* C14: no two stored bills share an id, and a payBill or updateBill request
   leaves the ids of the stored bills, and their number, as they were. *)
C14_IdsUniqueAndStable ==
    /\ []UniqueIds
    /\ [][\A billId \in RowIds :
             (\/ \E body \in RowPayBodies : PayBill(billId, body)
              \/ \E body \in RowUpdateBodies : UpdateBill(billId, body))
                => (Ids(bills') = Ids(bills) /\ Cardinality(bills') = Cardinality(bills))]_vars

(* Two bills are stored, and a payment or update has just changed one of them. *)
C14_Witness ==
    /\ Cardinality(Ids(bills)) = 2
    /\ res.kind \in {"paid", "updated"}
    /\ \E r \in Addressed(bills, res.billNum) : \E q \in bills : q.amountPaid # r.amountPaid

(* C15: the answer of listBills holds exactly the stored bills (those added and
   not deleted), each once, in strictly ascending order of id. *)
C15_ListIsTableAscending ==
    res.kind = "bills" =>
        /\ {res.rows[i] : i \in DOMAIN res.rows} = bills
        /\ Len(res.rows) = Cardinality(bills)
        /\ \A i \in DOMAIN res.rows, j \in DOMAIN res.rows :
              i < j => res.rows[i].billid < res.rows[j].billid

(* listBills has answered with two stored bills that differ in their payment. *)
C15_Witness ==
    /\ res.kind = "bills"
    /\ Len(res.rows) = 2
    /\ res.rows[1].amountPaid # res.rows[2].amountPaid

(* Row q of the next table is bill r of this one, no longer with isPaid = true. *)
IsPaidCleared(r, q) == IsTrue(r.isPaid) /\ q.billid = r.billid /\ ~IsTrue(q.isPaid)

(* C18, as stated: a stored bill with isPaid = true stops having it only in a
   step that is an updateBill on that bill storing amountPaid = 0; no payBill
   step does it. *)
C18_IsPaidClearedOnlyByZeroUpdate ==
    [][\A r \in bills, q \in bills' :
          IsPaidCleared(r, q) =>
              /\ res'.kind = "updated" /\ res'.billNum = <<r.billid>>
              /\ q.amountPaid = <<0>>]_vars

(* C18, amended: a stored bill with isPaid = true stops having it only in a
   step that is an updateBill on that bill storing an amountPaid that is not
   positive: 0, or none at all; no payBill step does it. *)
C18_IsPaidClearedOnlyByUnpaidUpdate ==
    [][\A r \in bills, q \in bills' :
          IsPaidCleared(r, q) =>
              /\ res'.kind = "updated" /\ res'.billNum = <<r.billid>>
              /\ ~GtZero(q.amountPaid)]_vars

(* An update has just left a bill unpaid with no amountPaid stored, beside a
   bill that is paid. *)
C18_Witness ==
    /\ res.kind = "updated"
    /\ \E r \in Addressed(bills, res.billNum) : IsFalse(r.isPaid) /\ r.amountPaid = Absent
    /\ \E q \in bills : IsTrue(q.isPaid)

(* The id is a numeral of a positive integer. *)
IsPositiveInteger(billId) ==
    /\ billId # <<>>
    /\ \A i \in DOMAIN billId : IsDigit(billId[i])
    /\ DigitsValue(billId) > 0

(* A step of one of the routes with an id parameter, for id billId. *)
IdRouteStep(billId) ==
    \/ GetBill(billId)
    \/ GetAmountPaid(billId)
    \/ \E body \in RowPayBodies : PayBill(billId, body)
    \/ \E body \in RowUpdateBodies : UpdateBill(billId, body)
    \/ DeleteBill(billId)

(* C19, as stated: with bills stored, a request on any route whose id is not a
   positive integer is answered with a failure and leaves the table unchanged. *)
C19_NonIntegerIdRejected ==
    [][\A billId \in RowIds :
          (bills # {} /\ ~IsPositiveInteger(billId) /\ IdRouteStep(billId))
              => (IsFailure(res') /\ bills' = bills)]_vars

(* C19, amended: a request whose id does not start with a digit is answered
   with a failure on every route and leaves the table unchanged, and so is a
   getBill request whose id is not a numeral; an id that starts with digits is
   otherwise read as the number they spell. *)
C19_UnreadableIdRejected ==
    [][\A billId \in RowIds :
          /\ (~IsDigit(billId[1]) /\ IdRouteStep(billId))
                => (IsFailure(res') /\ bills' = bills)
          /\ (~IsPositiveInteger(billId) /\ GetBill(billId))
                => (IsFailure(res') /\ bills' = bills)]_vars

(* With two bills stored, a request was refused for its id. *)
C19_Witness ==
    /\ res = InvalidIdResponse
    /\ Cardinality(bills) = 2

(* The table after the handler of query q has run as a whole on table t. *)
Handled(t, q) ==
    IF q.route = "paybill" THEN AfterPay(t, q.billNum, q.body)
    ELSE AfterUpdate(t, q.billNum, q.body)

(* The tables that running the handlers of the queries Q one after the other,
   in some order, leaves from table t. *)
RECURSIVE SerialResults(_, _)
SerialResults(t, Q) ==
    IF Q = {} THEN {t}
    ELSE UNION {{Handled(u, q) : u \in SerialResults(t, Q \ {q})} : q \in Q}

(* C20: when write requests run concurrently, the table after those executed so
   far is the table that running them one after the other in some order would
   leave: each bill is the complete result of the request applied last to it. *)
C20_LastWriteWins ==
    bills \in SerialResults(batch.base, batch.queries \ inflight)

(* A payment and an update of the same bill ran concurrently and both are
   done; the table is the one the payment applied last leaves, which is not the
   one the update applied last leaves. *)
C20_Witness ==
    /\ inflight = {}
    /\ \E p \in batch.queries, u \in batch.queries :
          /\ p.route = "paybill" /\ u.route = "updatebill"
          /\ p.billNum = u.billNum
          /\ Addressed(batch.base, p.billNum) # {}
          /\ bills = Handled(Handled(batch.base, u), p)
          /\ bills # Handled(Handled(batch.base, p), u)

(* C28: a payBill request whose amountPaid is absent, zero or negative leaves
   the table as it was and is not answered with the success confirmation. *)
C28_PayWithoutAmountDoesNothing ==
    [][\A billId \in RowIds, body \in RowPayBodies :
          (~GtZero(body.amountPaid) /\ PayBill(billId, body))
              => (bills' = bills /\ ~IsConfirmation(res') /\ IsFailure(res'))]_vars

(* With a paid and an unpaid bill stored, a pay request has just been refused
   for want of a statement. *)
C28_Witness ==
    /\ res = ErrorResponse
    /\ \E r \in bills : IsTrue(r.isPaid)
    /\ \E r \in bills : IsFalse(r.isPaid)

(* The rows of the addressed bill show what pay request body stored. *)
StoredFrom(t, billNum, body) ==
    \A r \in Addressed(t, billNum) :
        /\ r.amountPaid = body.amountPaid
        /\ r.datePaid = ToDate(body.datePaid)
        /\ r.paidBy = body.paidBy
        /\ IsTrue(r.isPaid)
        /\ r.paidInFull = <<PaysExactly(body)>>

(* C29: after a payment followed by a second payment of the same bill (both
   with amountPaid > 0, so that both run their UPDATE), the table is the one
   the second payment alone leaves: amountPaid, datePaid and paidBy are the
   second request's and the flags are derived from the second request. *)
C29_SecondPaymentOverwrites ==
    \A billId \in RowIds, first \in RowPayBodies, second \in RowPayBodies :
        (GtZero(first.amountPaid) /\ GtZero(second.amountPaid)) =>
            LET billNum == parseInt(billId)
                after == AfterPay(AfterPay(bills, billNum, first), billNum, second)
            IN  /\ after = AfterPay(bills, billNum, second)
                /\ StoredFrom(after, billNum, second)

(* A bill that was paid in full has just been paid again with a smaller
   amount, which is what is stored. *)
C29_Witness ==
    /\ res.kind = "paid"
    /\ \E r \in Addressed(bills, res.billNum) :
          /\ r.amountPaid = <<1>> /\ IsFalse(r.paidInFull) /\ IsTrue(r.isPaid)
          /\ \E first \in RowPayBodies, second \in RowPayBodies :
                /\ first.amountPaid = <<2>> /\ second.amountPaid = <<1>>
                /\ bills = AfterPay(AfterPay(bills, res.billNum, first), res.billNum, second)

(* The bills of table t other than bill n. *)
OtherBills(t, n) == {r \in t : r.billid # n}

(* C21: with pay, update and delete queries of several bills in flight, the
   execution of a query addressed to bill A leaves every bill with another id
   as it was, none added and none removed. *)
C21_OtherBillsUntouched ==
    [][\A q \in FrameQueries :
          Complete(q) => OtherBills(bills', q.billNum[1]) = OtherBills(bills, q.billNum[1])]_vars

(* A query on bill 1 has been executed while a query on bill 2 is in flight,
   and bill 2 is stored as it was added. *)
C21_Witness ==
    /\ res.kind \in {"paid", "updated", "deleted"} /\ res.billNum = <<1>>
    /\ \E q \in inflight : q.billNum = <<2>>
    /\ \E r \in bills : r.billid = 2 /\ r.amountPaid = <<0>> /\ IsFalse(r.isPaid)
    /\ \A r \in bills : r.billid = 1 => IsTrue(r.isPaid)

(* An HTTP status that reports success. *)
IsSuccessStatus(status) == status \in 200..299

(* C22: when the store reports an error, the response is a failure that does
   not carry a success status, and the table is left as it was. *)
C22_StoreErrorIsFailureStatus ==
    [][IsFailure(res') => (~IsSuccessStatus(res'.status) /\ bills' = bills)]_vars

(* C23: the clients checked out of the pool never number more than max, and a
   pool.query call waits only while max clients are checked out. *)
C23_ClientsWithinMax ==
    /\ ClientsOut(clients) <= PoolMax
    /\ pending > 0 => ClientsOut(clients) = PoolMax

(* The pool is exhausted and a request waits for a client. *)
C23_Witness ==
    /\ ClientsOut(clients) = PoolMax
    /\ pending = MaxPending

(* The list on the page shows the bill with this billid as paid in full: its
   "Pay" button is disabled. *)
ShownPaidInFull(state, billid) ==
    /\ IsRows(state.filteredBills)
    /\ billid # Absent
    /\ \E i \in 1..Len(state.filteredBills.rows) :
          /\ state.filteredBills.rows[i].billid = billid[1]
          /\ ~FalsyFlag(state.filteredBills.rows[i].paidInFull)

(* C24: whenever the "Pay Bill" button sends its PATCH /paybill request, the
   bill it addresses is not one the list shows as paid in full. *)
C24_NoPayForBillShownPaidInFull ==
    [][(HandlePaySubmit /\ ~PaymentFieldsMissing(ui.billData))
          => ~ShownPaidInFull(ui, ui.billData.billid)]_vars

(* One of the four fields an add or an update requires is empty in the form. *)
BillFieldEmpty(data) ==
    \/ data.billfrom = <<"">>
    \/ data.billType = <<"">>
    \/ data.amountDue = <<0>>
    \/ data.dueDate = <<"">>

(* One of the three fields a payment requires is empty in the form. *)
PaymentFieldEmpty(data) ==
    \/ data.amountPaid = <<0>>
    \/ data.datePaid = <<"">>
    \/ data.paidBy = <<"">>

(* The step sends no HTTP request: the store and the last response are as before. *)
NoRequest == UNCHANGED <<bills, billid_seq, res>>

(* The step leaves every popup as it was, open or closed. *)
PopupsStay ==
    /\ ui'.isAddModalOpen = ui.isAddModalOpen
    /\ ui'.isPayModalOpen = ui.isPayModalOpen
    /\ ui'.isUpdateModalOpen = ui.isUpdateModalOpen

(* A submit that finds a required field empty sets its error message, sends no
   request and closes nothing. *)
RejectedSubmitStaysOpen ==
    /\ (HandleSubmit /\ BillFieldEmpty(ui.billData))
          => (ui'.errorMsg = AddErrMsg /\ NoRequest /\ PopupsStay /\ ui'.billData = ui.billData)
    /\ (HandlePaySubmit /\ PaymentFieldEmpty(ui.billData))
          => (ui'.errorMsg = PayErrMsg /\ NoRequest /\ PopupsStay /\ ui'.billData = ui.billData)
    /\ (HandleUpdateSubmit /\ BillFieldEmpty(ui.billData))
          => (ui'.errorMsg = UpdateErrMsg /\ NoRequest /\ PopupsStay /\ ui'.billData = ui.billData)

(* The form data and the error message are the defaults again. *)
FormReset == ui'.billData = BillDataDefaults /\ ui'.errorMsg = ""

(* A submit that finds no required field empty closes its popup and resets the form. *)
AcceptedSubmitCloses ==
    /\ (HandleSubmit /\ ~BillFieldEmpty(ui.billData)) => (~ui'.isAddModalOpen /\ FormReset)
    /\ (HandlePaySubmit /\ ~PaymentFieldEmpty(ui.billData)) => (~ui'.isPayModalOpen /\ FormReset)
    /\ (HandleUpdateSubmit /\ ~BillFieldEmpty(ui.billData)) => (~ui'.isUpdateModalOpen /\ FormReset)

(* The step is one that loads the page anew. *)
PageLoads == ui' = Mounted(bills')

(* C25: a submit handler that finds a required field empty sets the error
   message, sends no request and leaves its popup open; a submit that finds
   none closes its popup and resets form data and error message; and a popup
   is otherwise closed only by its own close button, which resets the same
   state, or by the page loading anew. *)
C25_SubmitClosesOnlyWhenValid ==
    [][/\ RejectedSubmitStaysOpen
       /\ AcceptedSubmitCloses
       /\ (ui.isAddModalOpen /\ ~ui'.isAddModalOpen)
             => ((HandleSubmit /\ ~BillFieldEmpty(ui.billData)) \/ HandleClose \/ PageLoads)
       /\ (ui.isPayModalOpen /\ ~ui'.isPayModalOpen)
             => ((HandlePaySubmit /\ ~PaymentFieldEmpty(ui.billData)) \/ HandlePayClose \/ PageLoads)
       /\ (ui.isUpdateModalOpen /\ ~ui'.isUpdateModalOpen)
             => ((HandleUpdateSubmit /\ ~BillFieldEmpty(ui.billData)) \/ HandleUpdateClose \/ PageLoads)
       /\ (HandleClose \/ HandlePayClose \/ HandleUpdateClose) => FormReset]_vars

(* C25 as stated: a rejected submit sets the error message, sends nothing and
   stays open, and a popup is closed, with form data and error message reset,
   only by a submit with no validation error. *)
C25_PopupClosedOnlyByValidSubmit ==
    [][/\ RejectedSubmitStaysOpen
       /\ (ui.isAddModalOpen /\ ~ui'.isAddModalOpen)
             => (HandleSubmit /\ ~BillFieldEmpty(ui.billData) /\ FormReset)
       /\ (ui.isPayModalOpen /\ ~ui'.isPayModalOpen)
             => (HandlePaySubmit /\ ~PaymentFieldEmpty(ui.billData) /\ FormReset)
       /\ (ui.isUpdateModalOpen /\ ~ui'.isUpdateModalOpen)
             => (HandleUpdateSubmit /\ ~BillFieldEmpty(ui.billData) /\ FormReset)]_vars

(* "Update Bill" was pressed with the Bill From input emptied: the message is
   shown, the popup is open, and the stored bill still has its name. *)
C25_Witness ==
    /\ ui.errorMsg = UpdateErrMsg
    /\ ui.isUpdateModalOpen
    /\ ui.billData.billid = <<1>>
    /\ ui.billData.billfrom = <<"">>
    /\ \E r \in bills : r.billid = 1 /\ r.billfrom = <<"Doctor">>

(* C26: a confirmed delete leaves the bills state and the filteredBills state
   holding the list of the remaining bills, a sequence of bill records. *)
C26_DeleteRefreshesLists ==
    [][\A i \in 1..MaxSeq :
          HandleDelete(i, TRUE)
             => /\ ui'.bills = Rows(SelectAll(bills'))
                /\ ui'.filteredBills = Rows(SelectAll(bills'))]_vars

(* The form data carries the default payment fields of useState. *)
HasDefaultPayment(data) ==
    /\ data.amountPaid = BillDataDefaults.amountPaid
    /\ data.isPaid = BillDataDefaults.isPaid
    /\ data.paidInFull = BillDataDefaults.paidInFull
    /\ data.datePaid = BillDataDefaults.datePaid
    /\ data.paidBy = BillDataDefaults.paidBy

(* C27: whenever the "Add Bill" button sends its POST /addbill request, the
   form data it posts carries the default payment fields. *)
C27_AddPostsDefaultPayment ==
    [][(HandleSubmitRows /\ ~BillFieldEmpty(ui.billData) /\ ui.billData.billid = Absent)
          => HasDefaultPayment(ui.billData)]_vars

(* C30: whenever no request is in flight, none running a query and none
   waiting, no client is checked out of the pool: all PoolMax are available. *)
C30_AllClientsFreeWhenIdle ==
    (clients.query = 0 /\ pending = 0) => ClientsOut(clients) = 0

====
